---- MODULE Spec2Model ----
(***************************************************************************)
(* wei18n-po-conv: conversion between WebExtensions messages.json,         *)
(* Rainbeam translation JSON and Gettext PO data.                          *)
(*                                                                         *)
(* Representation of JavaScript values                                     *)
(*  - a string the code computes with (keys, messages, msgid, msgstr       *)
(*    segments, comments, paths) is a sequence of characters; "" is <<>>;  *)
(*  - `undefined` in a string-typed slot is the value Undefined, which is  *)
(*    no sequence of characters of the model's alphabets;                  *)
(*  - an optional object (a parameter such as `source?`) is Absent or      *)
(*    Given(object);                                                       *)
(*  - an object used as a dictionary (Record<string, T>) is the sequence   *)
(*    of its <<key, value>> pairs in Object.entries order, keys distinct;  *)
(*    no key of the model is an integer-like string or a member of         *)
(*    Object.prototype, so that order is insertion order and a lookup      *)
(*    finds own properties only;                                           *)
(*  - strings that are only copied (header names and values, locale,       *)
(*    name, version, mode) are TLA+ strings.                               *)
(***************************************************************************)
EXTENDS Integers, Sequences, FiniteSets, TLC

VARIABLES
    pc,        \* position of the run
    call,      \* the converter invocation: function name and arguments
    poValue,   \* the GettextParserData in memory (built by toPo, or parsed)
    result,    \* what the toJson function returned (the JSON text's value)
    argv,      \* command line of a CLI run
    files,     \* contents of the files named on the command line
    events,    \* reads, writes and console output of a CLI run, in order
    exitCode   \* exit status of a CLI run

vars == <<pc, call, poValue, result, argv, files, events, exitCode>>

-----------------------------------------------------------------------------
(* Bounds of the model *)

MaxKeys == 2      \* keys per JSON dictionary
MaxRefs == 2      \* reference maps per referenceTexts list
MaxEntries == 2   \* entries per parsed PO file

-----------------------------------------------------------------------------
(* JavaScript values *)

Undefined == <<"undefined">>
Absent == <<>>
Given(x) == <<x>>
LF == "\n"

\* JavaScript truthiness of a value of type string | undefined.
Truthy(v) == v # Undefined /\ v # <<>>

\* The same for an option whose value is a string.
TruthyOption(o) == o # Absent /\ o[1] # <<>>

\* Own keys of a dictionary, as a set.
ObjectKeys(obj) == {obj[i][1] : i \in DOMAIN obj}

\* `key in obj` for own properties.
Has(obj, key) == \E i \in DOMAIN obj : obj[i][1] = key

\* obj[key]; only used where the key is present or the values are strings.
Get(obj, key) ==
    IF Has(obj, key)
    THEN obj[CHOOSE i \in DOMAIN obj : obj[i][1] = key][2]
    ELSE Undefined

\* obj[key] = value: an existing key keeps its position, a new key is last.
Put(obj, key, value) ==
    IF Has(obj, key)
    THEN [i \in DOMAIN obj |-> IF obj[i][1] = key THEN <<key, value>> ELSE obj[i]]
    ELSE Append(obj, <<key, value>>)

\* Array.prototype.join(""): undefined elements contribute "".
RECURSIVE join(_)
join(segments) ==
    IF segments = <<>>
    THEN <<>>
    ELSE (IF Head(segments) = Undefined THEN <<>> ELSE Head(segments))
         \o join(Tail(segments))

-----------------------------------------------------------------------------
(* PO data *)

\* An entry without comments; `comments: undefined` and `comments: {}` are
\* not told apart: the code reads comments through `?.` or after creating it.
NoComments == [translator |-> Undefined, extracted |-> Undefined]

-----------------------------------------------------------------------------
(* WebExtensions converter *)

\* The loop over referenceTexts writing the reference texts over the
\* description.
RECURSIVE mergeReferencesIntoExtracted(_, _, _)
mergeReferencesIntoExtracted(comments, key, referenceTexts) ==
    IF referenceTexts = <<>>
    THEN comments
    ELSE LET reference == Head(referenceTexts)
             merged ==
                 IF Has(reference, key)
                 THEN [comments EXCEPT !.translator = Get(reference, key).message,
                                       !.extracted = Get(reference, key).message]
                 ELSE comments
         IN  mergeReferencesIntoExtracted(merged, key, Tail(referenceTexts))

\* The loop over referenceTexts for one key.
RECURSIVE mergeReferences(_, _, _)
mergeReferences(comments, key, referenceTexts) ==
    IF referenceTexts = <<>>
    THEN comments
    ELSE LET reference == Head(referenceTexts)
             merged ==
                 IF Has(reference, key)
                 THEN IF ~Truthy(comments.translator)
                      THEN [comments EXCEPT !.translator = Get(reference, key).message]
                      ELSE [comments EXCEPT
                               !.translator = @ \o <<LF, LF>> \o Get(reference, key).message]
                 ELSE comments
         IN  mergeReferences(merged, key, Tail(referenceTexts))

\* wei18nToPo's entry with no msgstr element for an empty message.
wei18nEntryNoEmptyMessage(key, entry, referenceTexts) ==
    LET described ==
            IF Truthy(entry.description)
            THEN [NoComments EXCEPT !.extracted = entry.description]
            ELSE NoComments
        comments ==
            IF referenceTexts # Absent
            THEN mergeReferences(described, key, referenceTexts[1])
            ELSE described
    IN  [msgctxt |-> <<>>, msgid |-> key,
         msgstr |-> IF entry.message = <<>> THEN <<>> ELSE <<entry.message>>,
         comments |-> comments]

\* The body of the loop over Object.entries(json): the entry of one key.
wei18nEntry(key, entry, referenceTexts) ==
    LET described ==
            IF Truthy(entry.description)
            THEN [NoComments EXCEPT !.extracted = entry.description]
            ELSE NoComments
        comments ==
            IF referenceTexts # Absent
            THEN mergeReferences(described, key, referenceTexts[1])
            ELSE described
    IN  [msgctxt |-> <<>>, msgid |-> key, msgstr |-> <<entry.message>>,
         comments |-> comments]

RECURSIVE wei18nTranslations(_, _, _)
wei18nTranslations(translations, entries, referenceTexts) ==
    IF entries = <<>>
    THEN translations
    ELSE LET key == Head(entries)[1]
             entry == Head(entries)[2]
         IN  wei18nTranslations(
                 Put(translations, key, wei18nEntry(key, entry, referenceTexts)),
                 Tail(entries), referenceTexts)

\* wei18nToPo with the Language header fixed instead of taken from locale.
wei18nToPoFixedLanguage(json, locale, referenceTexts) ==
    [charset |-> "utf-8",
     headers |-> << <<"Project-Id-Version", "placeholder">>,
                    <<"mime-version", "1.0">>,
                    <<"Content-Type", "text/plain; charset=utf-8">>,
                    <<"Content-Transfer-Encoding", "8bit">>,
                    <<"Plural-Forms", "nplurals=1; plural=0">>,
                    <<"Language", "en-US">> >>,
     translations |-> << <<<<>>, wei18nTranslations(<<>>, json, referenceTexts)>> >>]

\* The data wei18nToPo hands to po.compile.
wei18nToPo(json, locale, referenceTexts) ==
    [charset |-> "utf-8",
     headers |-> << <<"Project-Id-Version", "placeholder">>,
                    <<"mime-version", "1.0">>,
                    <<"Content-Type", "text/plain; charset=utf-8">>,
                    <<"Content-Transfer-Encoding", "8bit">>,
                    <<"Plural-Forms", "nplurals=1; plural=0">>,
                    <<"Language", locale>> >>,
     translations |-> << <<<<>>, wei18nTranslations(<<>>, json, referenceTexts)>> >>]

\* JSON.stringify of one message entry: an undefined property is left out.
stringifyMessage(message, description) ==
    IF description = Undefined
    THEN [message |-> message]
    ELSE [message |-> message, description |-> description]

\* wei18nToJson's loop without `if (msgid === "") continue`.
RECURSIVE wei18nMessagesKeepingHeader(_, _)
wei18nMessagesKeepingHeader(res, entries) ==
    IF entries = <<>>
    THEN res
    ELSE wei18nMessagesKeepingHeader(
             Put(res, Head(entries)[1],
                 stringifyMessage(join(Head(entries)[2].msgstr),
                                  Head(entries)[2].comments.extracted)),
             Tail(entries))

\* wei18nToJson's loop reading the description from comments.translator.
RECURSIVE wei18nMessagesFromTranslator(_, _)
wei18nMessagesFromTranslator(res, entries) ==
    IF entries = <<>>
    THEN res
    ELSE IF Head(entries)[1] = <<>>
         THEN wei18nMessagesFromTranslator(res, Tail(entries))
         ELSE wei18nMessagesFromTranslator(
                  Put(res, Head(entries)[1],
                      stringifyMessage(join(Head(entries)[2].msgstr),
                                       Head(entries)[2].comments.translator)),
                  Tail(entries))

RECURSIVE wei18nMessages(_, _)
wei18nMessages(res, entries) ==
    IF entries = <<>>
    THEN res
    ELSE LET msgid == Head(entries)[1]
             entry == Head(entries)[2]
         IN  IF msgid = <<>>
             THEN wei18nMessages(res, Tail(entries))
             ELSE wei18nMessages(
                      Put(res, msgid,
                          stringifyMessage(join(entry.msgstr), entry.comments.extracted)),
                      Tail(entries))

\* wei18nToJson: Object.entries(undefined) throws when the PO data has no
\* table for context "".
wei18nToJson(po) ==
    IF ~Has(po.translations, <<>>)
    THEN [status |-> "threw", value |-> <<>>]
    ELSE [status |-> "returned",
          value |-> wei18nMessages(<<>>, Get(po.translations, <<>>))]

-----------------------------------------------------------------------------
(* Rainbeam converter *)

\* rainbeamToPo's entry with msgstr filled from json whether or not a source
\* is given.
rainbeamEntryAlwaysFilled(key, text, json, source) ==
    [msgctxt |-> key,
     msgid |-> IF source # Absent THEN Get(source[1].data, key) ELSE text,
     msgstr |-> <<Get(json.data, key)>>,
     comments |-> NoComments]

\* rainbeamToPo's entry with "" for a target text that is missing.
rainbeamEntryEmptyForMissing(key, text, json, source) ==
    [msgctxt |-> key,
     msgid |-> IF source # Absent THEN Get(source[1].data, key) ELSE text,
     msgstr |-> IF source # Absent
                THEN <<IF Has(json.data, key) THEN Get(json.data, key) ELSE <<>>>>
                ELSE <<>>,
     comments |-> NoComments]

rainbeamEntry(key, text, json, source) ==
    [msgctxt |-> key,
     msgid |-> IF source # Absent THEN Get(source[1].data, key) ELSE text,
     msgstr |-> IF source # Absent THEN <<Get(json.data, key)>> ELSE <<>>,
     comments |-> NoComments]

RECURSIVE rainbeamTranslations(_, _, _, _)
rainbeamTranslations(translations, entries, json, source) ==
    IF entries = <<>>
    THEN translations
    ELSE LET key == Head(entries)[1]
             text == Head(entries)[2]
         IN  rainbeamTranslations(
                 Put(translations, key, rainbeamEntry(key, text, json, source)),
                 Tail(entries), json, source)

\* rainbeamToPo iterating json.data even when a source is given.
rainbeamToPoOverTarget(json, locale, source) ==
    [charset |-> "utf-8",
     headers |-> << <<"Project-Id-Version", "placeholder">>,
                    <<"mime-version", "1.0">>,
                    <<"Content-Type", "text/plain; charset=utf-8">>,
                    <<"Content-Transfer-Encoding", "8bit">>,
                    <<"Plural-Forms", "nplurals=1; plural=0">>,
                    <<"Language", locale>> >>,
     translations |->
        << <<<<>>, rainbeamTranslations(<<>>, json.data, json, source)>> >>]

\* The data rainbeamToPo hands to po.compile.
rainbeamToPo(json, locale, source) ==
    [charset |-> "utf-8",
     headers |-> << <<"Project-Id-Version", "placeholder">>,
                    <<"mime-version", "1.0">>,
                    <<"Content-Type", "text/plain; charset=utf-8">>,
                    <<"Content-Transfer-Encoding", "8bit">>,
                    <<"Plural-Forms", "nplurals=1; plural=0">>,
                    <<"Language", locale>> >>,
     translations |->
        << <<<<>>, rainbeamTranslations(
                       <<>>,
                       IF source # Absent THEN source[1].data ELSE json.data,
                       json, source)>> >>]

\* rainbeamToJson's inner loop keeping the first text of a context.
RECURSIVE rainbeamContextFirstWins(_, _, _)
rainbeamContextFirstWins(data, context, entries) ==
    IF entries = <<>>
    THEN data
    ELSE IF Head(entries)[1] = <<>> \/ Has(data, context)
         THEN rainbeamContextFirstWins(data, context, Tail(entries))
         ELSE rainbeamContextFirstWins(
                  Put(data, context, join(Head(entries)[2].msgstr)),
                  context, Tail(entries))

\* rainbeamToJson's inner loop storing each text under its msgid.
RECURSIVE rainbeamContextKeyedByMsgid(_, _, _)
rainbeamContextKeyedByMsgid(data, context, entries) ==
    IF entries = <<>>
    THEN data
    ELSE IF Head(entries)[1] = <<>>
         THEN rainbeamContextKeyedByMsgid(data, context, Tail(entries))
         ELSE rainbeamContextKeyedByMsgid(
                  Put(data, Head(entries)[1], join(Head(entries)[2].msgstr)),
                  context, Tail(entries))

\* The inner loop of rainbeamToJson over the entries of one context.
RECURSIVE rainbeamContext(_, _, _)
rainbeamContext(data, context, entries) ==
    IF entries = <<>>
    THEN data
    ELSE LET msgid == Head(entries)[1]
             entry == Head(entries)[2]
         IN  IF msgid = <<>>
             THEN rainbeamContext(data, context, Tail(entries))
             ELSE rainbeamContext(Put(data, context, join(entry.msgstr)),
                                  context, Tail(entries))

RECURSIVE rainbeamData(_, _)
rainbeamData(data, contexts) ==
    IF contexts = <<>>
    THEN data
    ELSE rainbeamData(rainbeamContext(data, Head(contexts)[1], Head(contexts)[2]),
                      Tail(contexts))

rainbeamToJson(po) ==
    [status |-> "returned",
     value |-> [name |-> "out", version |-> "0.0.0",
                data |-> rainbeamData(<<>>, po.translations)]]

-----------------------------------------------------------------------------
(* Earlier variants of the converters *)

\* The text a toJson function returns: JSON.stringify(res, null, 2) followed
\* by the ending it appends.
JsonText(res, ending) == [json |-> res, ending |-> ending]

\* The final wei18nToJson down to the string it returns.
wei18nToJsonText(po) ==
    LET ret == wei18nToJson(po)
    IN  IF ret.status = "threw"
        THEN ret
        ELSE [status |-> "returned", value |-> JsonText(ret.value, <<LF>>)]

\* The first WebExtensions converter: the description goes to
\* comments.translator, and there are no reference texts.
RECURSIVE wei18n_to_po_translations(_, _)
wei18n_to_po_translations(translations, entries) ==
    IF entries = <<>>
    THEN translations
    ELSE LET key == Head(entries)[1]
             entry == Head(entries)[2]
             resultEntry ==
                 [msgctxt |-> <<>>, msgid |-> key, msgstr |-> <<entry.message>>,
                  comments |-> IF Truthy(entry.description)
                               THEN [NoComments EXCEPT !.translator = entry.description]
                               ELSE NoComments]
         IN  wei18n_to_po_translations(Put(translations, key, resultEntry), Tail(entries))

wei18n_to_po(json, locale) ==
    [charset |-> "utf-8",
     headers |-> << <<"Project-Id-Version", "placeholder">>,
                    <<"mime-version", "1.0">>,
                    <<"Content-Type", "text/plain; charset=utf-8">>,
                    <<"Content-Transfer-Encoding", "8bit">>,
                    <<"Plural-Forms", "nplurals=1; plural=0">>,
                    <<"Language", locale>> >>,
     translations |-> << <<<<>>, wei18n_to_po_translations(<<>>, json)>> >>]

\* Its reverse: the description is read from comments.translator and the
\* string has no line break at its end.
RECURSIVE po_to_wei18n_messages(_, _)
po_to_wei18n_messages(res, entries) ==
    IF entries = <<>>
    THEN res
    ELSE LET msgid == Head(entries)[1]
             entry == Head(entries)[2]
         IN  IF msgid = <<>>
             THEN po_to_wei18n_messages(res, Tail(entries))
             ELSE po_to_wei18n_messages(
                      Put(res, msgid,
                          stringifyMessage(join(entry.msgstr), entry.comments.translator)),
                      Tail(entries))

po_to_wei18n(po) ==
    IF ~Has(po.translations, <<>>)
    THEN [status |-> "threw", value |-> <<>>]
    ELSE [status |-> "returned",
          value |-> JsonText(po_to_wei18n_messages(<<>>, Get(po.translations, <<>>)),
                             <<>>)]

\* The first Rainbeam converter: the loop runs over json.data whether or not
\* a source is given, and msgstr is the text of the loop.
RECURSIVE toPoTranslations(_, _, _)
toPoTranslations(translations, entries, source) ==
    IF entries = <<>>
    THEN translations
    ELSE LET key == Head(entries)[1]
             text == Head(entries)[2]
             resultEntry ==
                 [msgctxt |-> key,
                  msgid |-> IF source # Absent THEN Get(source[1].data, key) ELSE text,
                  msgstr |-> IF source # Absent THEN <<text>> ELSE <<>>,
                  comments |-> NoComments]
         IN  toPoTranslations(Put(translations, key, resultEntry), Tail(entries), source)

toPo(json, locale, source) ==
    [charset |-> "utf-8",
     headers |-> << <<"Project-Id-Version", "placeholder">>,
                    <<"mime-version", "1.0">>,
                    <<"Content-Type", "text/plain; charset=utf-8">>,
                    <<"Content-Transfer-Encoding", "8bit">>,
                    <<"Plural-Forms", "nplurals=1; plural=0">>,
                    <<"Language", locale>> >>,
     translations |-> << <<<<>>, toPoTranslations(<<>>, json.data, source)>> >>]

\* The second Rainbeam converter, rainbeam-json-convert.ts: the loop runs
\* over (source ?? json).data and msgstr is [json.data[key]].
RECURSIVE toPoPrioritizingSourceTranslations(_, _, _, _)
toPoPrioritizingSourceTranslations(translations, entries, json, source) ==
    IF entries = <<>>
    THEN translations
    ELSE LET key == Head(entries)[1]
             text == Head(entries)[2]
             resultEntry ==
                 [msgctxt |-> key,
                  msgid |-> IF source # Absent THEN Get(source[1].data, key) ELSE text,
                  msgstr |-> IF source # Absent THEN <<Get(json.data, key)>> ELSE <<>>,
                  comments |-> NoComments]
         IN  toPoPrioritizingSourceTranslations(
                 Put(translations, key, resultEntry), Tail(entries), json, source)

toPoPrioritizingSource(json, locale, source) ==
    [charset |-> "utf-8",
     headers |-> << <<"Project-Id-Version", "placeholder">>,
                    <<"mime-version", "1.0">>,
                    <<"Content-Type", "text/plain; charset=utf-8">>,
                    <<"Content-Transfer-Encoding", "8bit">>,
                    <<"Plural-Forms", "nplurals=1; plural=0">>,
                    <<"Language", locale>> >>,
     translations |->
        << <<<<>>, toPoPrioritizingSourceTranslations(
                       <<>>,
                       IF source # Absent THEN source[1].data ELSE json.data,
                       json, source)>> >>]

-----------------------------------------------------------------------------
(* Inputs of the converter functions *)

KeyUniverse == {<<>>, <<"k">>, <<"j">>}
Messages == {<<>>, <<"x">>}
Descriptions == {Undefined, <<>>, <<"d">>}
Placeholders == {Absent, Given(<< <<<<"p">>, [content |-> <<"$", "1">>]>> >>)}
ReferenceKeys == {<<"k">>, <<"j">>}
ReferenceMessages == {<<>>, <<"r">>, <<"s">>}
Texts == {<<>>, <<"x">>}
Locales == {"en-US", "zh_TW"}
Contexts == {<<>>, <<"c">>}
Msgids == {<<>>, <<"m">>, <<"n">>}
Msgstrs == {<<>>, <<<<"x">>>>, <<<<"x">>, <<"y">>>>}
ExtractedComments == {Undefined, <<"d">>}

\* The dictionaries of at most n keys drawn from K with values from V.
RECURSIVE Dictionaries(_, _, _)
Dictionaries(K, V, n) ==
    IF n = 0
    THEN {<<>>}
    ELSE LET smaller == Dictionaries(K, V, n - 1)
         IN  smaller \cup
             UNION {{Append(d, <<k, v>>) : k \in K \ ObjectKeys(d), v \in V} :
                    d \in {s \in smaller : Len(s) = n - 1}}

\* The sequences of at most n elements of S.
RECURSIVE Lists(_, _)
Lists(S, n) ==
    IF n = 0
    THEN {<<>>}
    ELSE LET shorter == Lists(S, n - 1)
         IN  shorter \cup
             {Append(l, x) : l \in {s \in shorter : Len(s) = n - 1}, x \in S}

\* Values the wei18n schema accepts.
Wei18nEntries ==
    [message : Messages, description : Descriptions, placeholders : Placeholders]
Wei18nMaps == Dictionaries(KeyUniverse, Wei18nEntries, MaxKeys)
TargetMaps ==
    Dictionaries(KeyUniverse,
                 [message : {<<"x">>}, description : {Undefined, <<"d">>},
                  placeholders : {Absent}],
                 MaxKeys)
ReferenceMaps ==
    Dictionaries(ReferenceKeys,
                 [message : ReferenceMessages, description : {Undefined},
                  placeholders : {Absent}],
                 1)
ReferenceLists == Lists(ReferenceMaps, MaxRefs)

\* Values the rainbeamI18nData schema accepts.
RainbeamFiles ==
    [name : {"hello"}, version : {"0.1"}, data : Dictionaries(KeyUniverse, Texts, MaxKeys)]

\* What po.parse returns for a PO file: each entry of the file is stored
\* under its context and msgid.
PoEntries ==
    [msgctxt : Contexts, msgid : Msgids, msgstr : Msgstrs,
     comments : [translator : {Undefined}, extracted : ExtractedComments]]

RECURSIVE parsedTranslations(_, _)
parsedTranslations(translations, tokens) ==
    IF tokens = <<>>
    THEN translations
    ELSE LET token == Head(tokens)
             table == IF Has(translations, token.msgctxt)
                      THEN Get(translations, token.msgctxt)
                      ELSE <<>>
         IN  parsedTranslations(
                 Put(translations, token.msgctxt, Put(table, token.msgid, token)),
                 Tail(tokens))

ParsedFiles ==
    {[charset |-> "utf-8", headers |-> <<>>,
      translations |-> parsedTranslations(<<>>, tokens)] :
        tokens \in Lists(PoEntries, MaxEntries)}

\* The entry po.compile writes for a block and po.parse reads back: the
\* block's own msgctxt and msgid, and one msgstr string, the first element of
\* the list or "" when the list is empty or the element undefined.
writtenEntry(block) ==
    [msgctxt |-> block.msgctxt,
     msgid |-> IF block.msgid = Undefined THEN <<>> ELSE block.msgid,
     msgstr |-> <<IF block.msgstr = <<>> \/ ~Truthy(block.msgstr[1])
                  THEN <<>>
                  ELSE block.msgstr[1]>>,
     comments |-> block.comments]

\* The blocks po.compile writes after the header, in table order: every
\* block but the one in the header slot, context "" and msgid "".
RECURSIVE writtenEntries(_, _)
writtenEntries(context, table) ==
    IF table = <<>>
    THEN <<>>
    ELSE (IF context = <<>> /\ Head(table)[1] = <<>>
          THEN <<>>
          ELSE <<writtenEntry(Head(table)[2])>>)
         \o writtenEntries(context, Tail(table))

RECURSIVE writtenFile(_)
writtenFile(translations) ==
    IF translations = <<>>
    THEN <<>>
    ELSE writtenEntries(Head(translations)[1], Head(translations)[2])
         \o writtenFile(Tail(translations))

\* The header block of a PO file as po.parse returns it.
headerEntry ==
    [msgctxt |-> <<>>, msgid |-> <<>>, msgstr |-> <<<<"h">>>>, comments |-> NoComments]

\* po.parse of what po.compile wrote: the header first, then every entry
\* stored under its own msgctxt and msgid.
poLayer(po) ==
    [charset |-> po.charset,
     headers |-> po.headers,
     translations |->
        parsedTranslations(<<>>, <<headerEntry>> \o writtenFile(po.translations))]

Wei18nCalls ==
    {[fn |-> "wei18nToPo", json |-> j, locale |-> l, referenceTexts |-> Absent] :
        j \in Wei18nMaps, l \in Locales}
    \cup
    {[fn |-> "wei18nToPo", json |-> j, locale |-> l, referenceTexts |-> Given(r)] :
        j \in TargetMaps, l \in Locales, r \in ReferenceLists}

RainbeamCalls ==
    {[fn |-> "rainbeamToPo", json |-> j, locale |-> l, source |-> Absent] :
        j \in RainbeamFiles, l \in Locales}
    \cup
    {[fn |-> "rainbeamToPo", json |-> j, locale |-> l, source |-> Given(s)] :
        j \in RainbeamFiles, l \in Locales, s \in RainbeamFiles}

NoCall == [fn |-> "po.parse"]

-----------------------------------------------------------------------------
(* The converter functions, called as the tests and main call them *)

CliIdle ==
    /\ argv = <<>>
    /\ files = <<>>
    /\ events = <<>>
    /\ exitCode = -1

Init ==
    /\ CliIdle
    /\ result = <<>>
    /\ \/ /\ pc = "call"
          /\ call \in Wei18nCalls
          /\ poValue = <<>>
       \/ /\ pc = "call"
          /\ call \in RainbeamCalls
          /\ poValue = <<>>
       \/ /\ pc = "po"
          /\ call = NoCall
          /\ poValue \in ParsedFiles

CallWei18nToPo ==
    /\ pc = "call"
    /\ call.fn = "wei18nToPo"
    /\ poValue' = wei18nToPo(call.json, call.locale, call.referenceTexts)
    /\ pc' = "po"
    /\ UNCHANGED <<call, result, argv, files, events, exitCode>>

CallRainbeamToPo ==
    /\ pc = "call"
    /\ call.fn = "rainbeamToPo"
    /\ poValue' = rainbeamToPo(call.json, call.locale, call.source)
    /\ pc' = "po"
    /\ UNCHANGED <<call, result, argv, files, events, exitCode>>

\* wei18nToJson on the data of a parsed file, or on the data wei18nToPo built.
CallWei18nToJson ==
    /\ pc = "po"
    /\ call.fn \in {"po.parse", "wei18nToPo"}
    /\ result' = [fn |-> "wei18nToJson", ret |-> wei18nToJson(poValue)]
    /\ pc' = "json"
    /\ UNCHANGED <<call, poValue, argv, files, events, exitCode>>

\* rainbeamToJson on the data of a parsed file.
CallRainbeamToJson ==
    /\ pc = "po"
    /\ call.fn = "po.parse"
    /\ result' = [fn |-> "rainbeamToJson", ret |-> rainbeamToJson(poValue)]
    /\ pc' = "json"
    /\ UNCHANGED <<call, poValue, argv, files, events, exitCode>>

\* rainbeamToJson on what po.parse returns for the PO file written from the
\* data rainbeamToPo built.
CallRainbeamToJsonOnWritten ==
    /\ pc = "po"
    /\ call.fn = "rainbeamToPo"
    /\ result' = [fn |-> "rainbeamToJson", ret |-> rainbeamToJson(poLayer(poValue))]
    /\ pc' = "json"
    /\ UNCHANGED <<call, poValue, argv, files, events, exitCode>>

Next ==
    \/ CallWei18nToPo
    \/ CallRainbeamToPo
    \/ CallWei18nToJson
    \/ CallRainbeamToJson
    \/ CallRainbeamToJsonOnWritten

Spec == Init /\ [][Next]_vars

-----------------------------------------------------------------------------
(* The command line program: main *)

DotJson == <<".", "j", "s", "o", "n">>

\* String.prototype.endsWith
endsWith(string, suffix) ==
    /\ Len(string) >= Len(suffix)
    /\ SubSeq(string, Len(string) - Len(suffix) + 1, Len(string)) = suffix

\* The default mode being rainbeam.
defaultModeRainbeam(mode) == IF mode = Absent THEN "rainbeam" ELSE mode[1]

\* The mode after the default is applied.
defaultMode(mode) == IF mode = Absent THEN "wei18n" ELSE mode[1]

\* Command lines: every option is Absent or Given(value).
Paths ==
    {<<"a">> \o DotJson, DotJson, <<"a", ".", "p", "o">>, <<"j", "s", "o", "n">>}
\* Arguments that belong to no option; each is written as the file it names.
Positionals == {<<>>, <<"wei18n-k">>, <<"wei18n-k", "wei18n-empty">>}
CommandLines ==
    [help : BOOLEAN,
     mode : {Absent, Given("rainbeam"), Given("wei18n"), Given("po")},
     locale : {Absent, Given("zh_TW")},
     input : {Absent} \cup {Given(p) : p \in Paths},
     output : {Absent, Given(<<"o">>)},
     source : {Absent, Given(<<>>), Given(<<"s">> \o DotJson)},
     positionals : Positionals]

\* Files: no such file, text that is neither JSON nor PO, JSON of either
\* schema, PO text.
Files ==
    {"missing", "garbage", "wei18n-empty", "wei18n-k", "rainbeam-k",
     "po-default", "po-context"}

kindOf(file) ==
    CASE file \in {"wei18n-empty", "wei18n-k"} -> "wei18n"
      [] file = "rainbeam-k" -> "rainbeam"
      [] file \in {"po-default", "po-context"} -> "po"
      [] OTHER -> file

\* The value JSON.parse, or po.parse, returns for the text of a file.
valueOf(file) ==
    CASE file = "wei18n-empty" -> <<>>
      [] file = "wei18n-k" ->
            << <<<<"k">>, [message |-> <<"x">>, description |-> <<"d">>,
                          placeholders |-> Absent]>> >>
      [] file = "rainbeam-k" ->
            [name |-> "hello", version |-> "0.1", data |-> << <<<<"k">>, <<"x">>>> >>]
      [] file = "po-default" ->
            [charset |-> "utf-8", headers |-> <<>>,
             translations |->
                parsedTranslations(<<>>,
                    << [msgctxt |-> <<>>, msgid |-> <<"m">>, msgstr |-> <<<<"x">>>>,
                        comments |-> NoComments] >>)]
      [] file = "po-context" ->
            [charset |-> "utf-8", headers |-> <<>>,
             translations |->
                parsedTranslations(<<>>,
                    << [msgctxt |-> <<"c">>, msgid |-> <<"m">>, msgstr |-> <<<<"x">>>>,
                        comments |-> NoComments] >>)]

\* readFileSync followed by JSON.parse and the schema's parse: the value, or
\* a throw.
readJson(file, schema) ==
    IF kindOf(file) = schema
    THEN [status |-> "returned", value |-> valueOf(file)]
    ELSE [status |-> "threw", value |-> <<>>]

\* readFileSync followed by po.parse.
readPo(file) ==
    IF kindOf(file) = "po"
    THEN [status |-> "returned", value |-> valueOf(file)]
    ELSE [status |-> "threw", value |-> <<>>]

Event(op, what, data) == [op |-> op, what |-> what, data |-> data]

\* An exception nothing catches: the process ends with status 1.
Throw(read) ==
    /\ events' = events \o read \o <<Event("throw", "uncaught", <<>>)>>
    /\ exitCode' = 1
    /\ pc' = "exited"
    /\ UNCHANGED call

InitMain ==
    /\ pc = "main"
    /\ call = <<>>
    /\ poValue = <<>>
    /\ result = <<>>
    /\ argv \in CommandLines
    /\ files \in [input : Files, source : Files]
    /\ argv.input = Absent => files.input = "missing"
    /\ argv.source = Absent => files.source = "missing"
    /\ events = <<>>
    /\ exitCode = -1

\* main testing the mode before --help.
ParseArgsModeFirst ==
    /\ pc = "main"
    /\ IF argv.positionals # <<>>
       THEN Throw(<<>>)
       ELSE IF defaultMode(argv.mode) \notin {"rainbeam", "wei18n"}
       THEN /\ events' = Append(events, Event("log", "Mode must be", <<>>))
            /\ exitCode' = 1
            /\ pc' = "exited"
       ELSE IF argv.help
       THEN /\ events' = Append(events, Event("log", "helpText", <<>>))
            /\ exitCode' = 0
            /\ pc' = "exited"
       ELSE IF argv.input = Absent \/ argv.output = Absent \/ argv.locale = Absent
       THEN /\ events' = Append(events, Event("log", "helpText", <<>>))
            /\ exitCode' = 1
            /\ pc' = "exited"
       ELSE /\ events' = events
            /\ exitCode' = exitCode
            /\ pc' = "input"
    /\ UNCHANGED <<call, poValue, result, argv, files>>

\* parseArgs, which has no allowPositionals and throws on an argument that
\* belongs to no option, and the checks before any file is touched.
ParseArgs ==
    /\ pc = "main"
    /\ IF argv.positionals # <<>>
       THEN Throw(<<>>)
       ELSE IF argv.help
       THEN /\ events' = Append(events, Event("log", "helpText", <<>>))
            /\ exitCode' = 0
            /\ pc' = "exited"
       ELSE IF defaultMode(argv.mode) \notin {"rainbeam", "wei18n"}
       THEN /\ events' = Append(events, Event("log", "Mode must be", <<>>))
            /\ exitCode' = 1
            /\ pc' = "exited"
       ELSE IF argv.input = Absent \/ argv.output = Absent \/ argv.locale = Absent
       THEN /\ events' = Append(events, Event("log", "helpText", <<>>))
            /\ exitCode' = 1
            /\ pc' = "exited"
       ELSE /\ events' = events
            /\ exitCode' = exitCode
            /\ pc' = "input"
    /\ UNCHANGED <<call, poValue, result, argv, files>>

\* The first read of the branch taken: the input file, parsed and validated.
ReadInput ==
    /\ pc = "input"
    /\ LET mode == defaultMode(argv.mode)
           read == <<Event("read", "input", <<>>)>>
           got == IF endsWith(argv.input[1], DotJson)
                  THEN readJson(files.input, mode)
                  ELSE readPo(files.input)
       IN  IF got.status = "threw"
           THEN Throw(read)
           ELSE /\ events' = events \o read
                /\ call' = [inputValue |-> got.value, sourceValue |-> Absent]
                /\ exitCode' = exitCode
                /\ pc' = IF endsWith(argv.input[1], DotJson) /\ TruthyOption(argv.source)
                         THEN "source"
                         ELSE "convert"
    /\ UNCHANGED <<poValue, result, argv, files>>

\* main going on without a source when the source file cannot be read.
ReadSourceLenient ==
    /\ pc = "source"
    /\ LET read == <<Event("read", "source", <<>>)>>
           got == readJson(files.source, defaultMode(argv.mode))
       IN  /\ events' = events \o read
           /\ call' = IF got.status = "threw"
                      THEN call
                      ELSE [call EXCEPT !.sourceValue = Given(got.value)]
           /\ exitCode' = exitCode
           /\ pc' = "convert"
    /\ UNCHANGED <<poValue, result, argv, files>>

\* The source file, read when -s names one.
ReadSource ==
    /\ pc = "source"
    /\ LET read == <<Event("read", "source", <<>>)>>
           got == readJson(files.source, defaultMode(argv.mode))
       IN  IF got.status = "threw"
           THEN Throw(read)
           ELSE /\ events' = events \o read
                /\ call' = [call EXCEPT !.sourceValue = Given(got.value)]
                /\ exitCode' = exitCode
                /\ pc' = "convert"
    /\ UNCHANGED <<poValue, result, argv, files>>

\* The converter of the branch and writeFileSync of what it returns.
ConvertAndWrite ==
    /\ pc = "convert"
    /\ LET mode == defaultMode(argv.mode)
           locale == argv.locale[1]
           fn == IF endsWith(argv.input[1], DotJson)
                 THEN IF mode = "rainbeam" THEN "rainbeamToPo" ELSE "wei18nToPo"
                 ELSE IF mode = "rainbeam" THEN "rainbeamToJson" ELSE "wei18nToJson"
           ret == CASE fn = "rainbeamToPo" ->
                         [status |-> "returned",
                          value |-> rainbeamToPo(call.inputValue, locale, call.sourceValue)]
                    [] fn = "wei18nToPo" ->
                         [status |-> "returned",
                          value |-> wei18nToPo(call.inputValue, locale,
                                               IF call.sourceValue # Absent
                                               THEN Given(<<call.sourceValue[1]>>)
                                               ELSE Absent)]
                    [] fn = "rainbeamToJson" -> rainbeamToJson(call.inputValue)
                    [] fn = "wei18nToJson" -> wei18nToJson(call.inputValue)
           ran == <<Event("convert", fn, <<>>)>>
       IN  IF ret.status = "threw"
           THEN /\ events' = events \o ran \o <<Event("throw", "uncaught", <<>>)>>
                /\ exitCode' = 1
           ELSE /\ events' = events \o ran \o <<Event("write", "output", ret.value)>>
                /\ exitCode' = 0
    /\ pc' = "exited"
    /\ UNCHANGED <<call, poValue, result, argv, files>>

NextMain ==
    \/ ParseArgs
    \/ ReadInput
    \/ ReadSource
    \/ ConvertAndWrite

SpecMain == InitMain /\ [][NextMain]_vars

-----------------------------------------------------------------------------
(* Claims about the converter functions *)

\* The header pseudo-entry: context "", msgid "".
IsHeaderSlot(context, msgid) == context = <<>> /\ msgid = <<>>

\* The table of context "" of the PO data in memory.
DefaultTable == Get(poValue.translations, <<>>)

BuiltByWei18nToPo == pc \in {"po", "json"} /\ call.fn = "wei18nToPo"
BuiltByRainbeamToPo == pc \in {"po", "json"} /\ call.fn = "rainbeamToPo"
RanOnParsedFile(fn) == pc = "json" /\ call.fn = "po.parse" /\ result.fn = fn
RoundTripped == pc = "json" /\ call.fn = "wei18nToPo"

\* {k: {message: m[k].message}} over the keys of m, in m's order.
MessagesOnly(m) == [i \in DOMAIN m |-> <<m[i][1], [message |-> m[i][2].message]>>]

NoDescriptions(m) == \A i \in DOMAIN m : m[i][2].description = Undefined

\* C1: converting a message map without descriptions to PO and back yields
\* exactly {k: {message: m[k].message}} over all keys of the map.
C1_RoundTrip ==
    (RoundTripped /\ NoDescriptions(call.json))
        => result.ret = [status |-> "returned", value |-> MessagesOnly(call.json)]

\* C2: a description is stored in comments.extracted of its key's entry and
\* comes back from wei18nToJson; an entry without description comes back
\* without one.
C2_DescriptionRoundTrip ==
    RoundTripped =>
        \A i \in DOMAIN call.json :
            LET k == call.json[i][1]
                e == call.json[i][2]
            IN  /\ Has(DefaultTable, k)
                /\ Get(DefaultTable, k).comments.extracted = e.description
                /\ result.ret.status = "returned"
                /\ Has(result.ret.value, k)
                /\ Get(result.ret.value, k) = stringifyMessage(e.message, e.description)

\* C3: the data wei18nToPo builds holds, under context "", exactly one
\* translatable entry per key (msgid = key, msgstr = [message]) and no other
\* translatable entry; no key lands in the header slot.
C3_ForwardKeyCoverage ==
    BuiltByWei18nToPo =>
        /\ \A j \in DOMAIN call.json :
              Cardinality({i \in DOMAIN DefaultTable :
                  /\ ~IsHeaderSlot(<<>>, DefaultTable[i][1])
                  /\ DefaultTable[i][2].msgid = call.json[j][1]
                  /\ DefaultTable[i][2].msgstr = <<call.json[j][2].message>>}) = 1
        /\ \A i \in DOMAIN DefaultTable :
              ~IsHeaderSlot(<<>>, DefaultTable[i][1])
                  => DefaultTable[i][2].msgid \in ObjectKeys(call.json)

\* The <<context, msgid>> pairs of the entries of PO data, header excluded.
NonHeaderEntries(po) ==
    UNION {{<<po.translations[c][1], po.translations[c][2][i][1]>> :
               i \in {n \in DOMAIN po.translations[c][2] :
                         ~IsHeaderSlot(po.translations[c][1], po.translations[c][2][n][1])}} :
           c \in DOMAIN po.translations}

\* The <<context, msgid>> pairs of the entries with a non-empty msgid.
NamedEntries(po) == {e \in NonHeaderEntries(po) : e[2] # <<>>}

\* C4 as stated: every entry other than the header is a key of the JSON, once:
\* as many keys as non-header entries.
C4_ReverseKeyCoverage ==
    /\ RanOnParsedFile("wei18nToJson") =>
          /\ result.ret.status = "returned"
          /\ \A e \in NonHeaderEntries(poValue) : Has(result.ret.value, e[2])
          /\ Len(result.ret.value) = Cardinality(NonHeaderEntries(poValue))
    /\ RanOnParsedFile("rainbeamToJson") =>
          /\ \A e \in NonHeaderEntries(poValue) : Has(result.ret.value.data, e[1])
          /\ Len(result.ret.value.data) = Cardinality(NonHeaderEntries(poValue))

\* C4 amended: wei18nToJson needs a table for context "" and then has exactly
\* one key per entry of that table with a non-empty msgid; rainbeamToJson has
\* exactly one key per context that holds an entry with a non-empty msgid.
C4_ReverseKeyCoverageAmended ==
    /\ RanOnParsedFile("wei18nToJson") =>
          IF Has(poValue.translations, <<>>)
          THEN /\ result.ret.status = "returned"
               /\ ObjectKeys(result.ret.value) =
                      {e[2] : e \in {n \in NamedEntries(poValue) : n[1] = <<>>}}
               /\ Len(result.ret.value) = Cardinality(ObjectKeys(result.ret.value))
          ELSE result.ret.status = "threw"
    /\ RanOnParsedFile("rainbeamToJson") =>
          /\ result.ret.status = "returned"
          /\ ObjectKeys(result.ret.value.data) = {e[1] : e \in NamedEntries(poValue)}
          /\ Len(result.ret.value.data) = Cardinality(ObjectKeys(result.ret.value.data))

\* A parsed file with entries that the reverse conversions do not turn into
\* keys of their own, converted by both functions.
C4_Witness ==
    /\ pc = "json"
    /\ call.fn = "po.parse"
    /\ Has(poValue.translations, <<>>)
    /\ Cardinality(NamedEntries(poValue)) = 2
    /\ \E e \in NamedEntries(poValue) : e[1] # <<>>
    /\ result.ret.status = "returned"

\* C5: every entry rainbeamToPo emits has msgctxt = key; without a source
\* msgid = json.data[key] and msgstr = []; with a source msgid =
\* source.data[key] and msgstr = [json.data[key]].
C5_RainbeamAsymmetry ==
    BuiltByRainbeamToPo =>
        \A i \in DOMAIN DefaultTable :
            LET k == DefaultTable[i][1]
                e == DefaultTable[i][2]
            IN  /\ e.msgctxt = k
                /\ call.source = Absent =>
                      /\ e.msgid = Get(call.json.data, k)
                      /\ e.msgstr = <<>>
                /\ call.source # Absent =>
                      /\ e.msgid = Get(call.source[1].data, k)
                      /\ e.msgstr = <<Get(call.json.data, k)>>

\* A target translated from a source: the entry's msgid and msgstr differ.
C5_Witness ==
    /\ BuiltByRainbeamToPo
    /\ call.source # Absent
    /\ \E i \in DOMAIN DefaultTable :
          /\ DefaultTable[i][2].msgid = <<"x">>
          /\ DefaultTable[i][2].msgstr = <<<<>>>>

\* C6: rainbeamToPo emits exactly one entry per key of source.data when a
\* source is given, and exactly one per key of json.data otherwise.
C6_RainbeamKeySet ==
    BuiltByRainbeamToPo =>
        /\ Len(poValue.translations) = 1
        /\ Len(DefaultTable) = Cardinality(ObjectKeys(DefaultTable))
        /\ ObjectKeys(DefaultTable) =
              IF call.source # Absent
              THEN ObjectKeys(call.source[1].data)
              ELSE ObjectKeys(call.json.data)

\* A source and a target whose key sets differ both ways.
C6_Witness ==
    /\ BuiltByRainbeamToPo
    /\ call.source # Absent
    /\ ObjectKeys(call.json.data) \ ObjectKeys(call.source[1].data) # {}
    /\ ObjectKeys(call.source[1].data) \ ObjectKeys(call.json.data) # {}

\* The messages of the references that contain key, in list order, joined
\* by a blank line; undefined when no reference contains key.
RECURSIVE JoinedReferences(_, _, _)
JoinedReferences(joined, key, referenceTexts) ==
    IF referenceTexts = <<>>
    THEN joined
    ELSE LET reference == Head(referenceTexts)
         IN  JoinedReferences(
                 IF ~Has(reference, key)
                 THEN joined
                 ELSE IF joined = Undefined
                      THEN Get(reference, key).message
                      ELSE joined \o <<LF, LF>> \o Get(reference, key).message,
                 key, Tail(referenceTexts))

\* C7: comments.translator of a key's entry is the message texts of the
\* references containing the key, in list order, joined by "\n\n", for all
\* message strings including empty ones.
C7_ReferenceOrder ==
    (BuiltByWei18nToPo /\ call.referenceTexts # Absent) =>
        \A i \in DOMAIN call.json :
            Get(DefaultTable, call.json[i][1]).comments.translator
                = JoinedReferences(Undefined, call.json[i][1], call.referenceTexts[1])

\* The last entry with a non-empty msgid of a context's table.
LastNamed(table) ==
    table[CHOOSE i \in DOMAIN table :
              /\ table[i][1] # <<>>
              /\ \A j \in DOMAIN table : table[j][1] # <<>> => j <= i][2]

\* C8 as stated: rainbeamToJson returns {name: "out", version: "0.0.0", data}
\* where data[context] is the joined msgstr of every entry of the context
\* with a non-empty msgid, and data has no other key.
C8_RainbeamToJson ==
    RanOnParsedFile("rainbeamToJson") =>
        /\ result.ret.status = "returned"
        /\ result.ret.value.name = "out"
        /\ result.ret.value.version = "0.0.0"
        /\ ObjectKeys(result.ret.value.data) = {e[1] : e \in NamedEntries(poValue)}
        /\ \A e \in NamedEntries(poValue) :
              Get(result.ret.value.data, e[1])
                  = join(Get(Get(poValue.translations, e[1]), e[2]).msgstr)

\* C8 amended: data[context] is the joined msgstr of the last entry with a
\* non-empty msgid of the context.
C8_RainbeamToJsonAmended ==
    RanOnParsedFile("rainbeamToJson") =>
        /\ result.ret.status = "returned"
        /\ result.ret.value.name = "out"
        /\ result.ret.value.version = "0.0.0"
        /\ ObjectKeys(result.ret.value.data) = {e[1] : e \in NamedEntries(poValue)}
        /\ \A e \in NamedEntries(poValue) :
              Get(result.ret.value.data, e[1])
                  = join(LastNamed(Get(poValue.translations, e[1])).msgstr)

\* Two entries of one context with different msgstr, the first of several
\* segments, converted by rainbeamToJson.
C8_Witness ==
    /\ RanOnParsedFile("rainbeamToJson")
    /\ \E c \in DOMAIN poValue.translations :
          LET table == poValue.translations[c][2]
          IN  /\ Len(table) = 2
              /\ table[1][1] # <<>>
              /\ table[2][1] # <<>>
              /\ table[1][2].msgstr = <<<<"x">>, <<"y">>>>
              /\ table[2][2].msgstr = <<<<"x">>>>
              /\ Get(result.ret.value.data, poValue.translations[c][1]) = <<"x">>

\* C9: both toPo functions, with or without references or source, write
\* charset utf-8 and exactly the six fixed headers, Language being the locale.
C9_FixedHeaders ==
    (BuiltByWei18nToPo \/ BuiltByRainbeamToPo) =>
        /\ poValue.charset = "utf-8"
        /\ Len(poValue.headers) = 6
        /\ {poValue.headers[i] : i \in DOMAIN poValue.headers} =
              {<<"Project-Id-Version", "placeholder">>,
               <<"mime-version", "1.0">>,
               <<"Content-Type", "text/plain; charset=utf-8">>,
               <<"Content-Transfer-Encoding", "8bit">>,
               <<"Plural-Forms", "nplurals=1; plural=0">>,
               <<"Language", call.locale>>}

\* A conversion of a non-empty target with a source, for locale zh_TW.
C9_Witness ==
    /\ BuiltByRainbeamToPo
    /\ call.source # Absent
    /\ call.locale = "zh_TW"
    /\ Len(DefaultTable) = 2
    /\ Get(poValue.headers, "Language") = "zh_TW"

\* The keys of the source that the target lacks.
MissingInTarget == ObjectKeys(call.source[1].data) \ ObjectKeys(call.json.data)

\* C15: with a source, a key of source.data that json.data lacks still gets
\* its entry, and the entry's msgstr has one element, the undefined value:
\* not the empty string and not a string at all.
C15_MissingTargetText ==
    (BuiltByRainbeamToPo /\ call.source # Absent) =>
        \A k \in MissingInTarget :
            /\ Has(DefaultTable, k)
            /\ Get(DefaultTable, k).msgctxt = k
            /\ Get(DefaultTable, k).msgid = Get(call.source[1].data, k)
            /\ Get(DefaultTable, k).msgstr = <<Undefined>>
            /\ Get(DefaultTable, k).msgstr[1] \notin Texts

\* A source with a key the target lacks next to one the target has.
C15_Witness ==
    /\ BuiltByRainbeamToPo
    /\ call.source # Absent
    /\ MissingInTarget # {}
    /\ ObjectKeys(call.source[1].data) \cap ObjectKeys(call.json.data) # {}
    /\ \E i \in DOMAIN DefaultTable : DefaultTable[i][2].msgstr = <<Undefined>>
    /\ \E i \in DOMAIN DefaultTable : DefaultTable[i][2].msgstr = <<<<"x">>>>

\* C16 as stated: every entry either toPo function produces, with or without
\* references or source, has a msgstr list of exactly one element.
C16_SingleMsgstr ==
    (BuiltByWei18nToPo \/ BuiltByRainbeamToPo) =>
        \A i \in DOMAIN DefaultTable : Len(DefaultTable[i][2].msgstr) = 1

\* C16 amended: every entry of wei18nToPo, and of rainbeamToPo with a
\* source, has a msgstr list of exactly one element; every entry of
\* rainbeamToPo without a source has an empty msgstr list.
C16_SingleMsgstrAmended ==
    (BuiltByWei18nToPo \/ BuiltByRainbeamToPo) =>
        \A i \in DOMAIN DefaultTable :
            Len(DefaultTable[i][2].msgstr) =
                IF call.fn = "rainbeamToPo" /\ call.source = Absent THEN 0 ELSE 1

\* A Rainbeam file of two texts converted without a source: two entries, no
\* msgstr element in either.
C16_Witness ==
    /\ BuiltByRainbeamToPo
    /\ call.source = Absent
    /\ Len(DefaultTable) = 2
    /\ \A i \in DOMAIN DefaultTable :
          DefaultTable[i][2].msgstr = <<>> /\ DefaultTable[i][2].msgid # <<>>

\* What wei18nToPo builds for the same map and locale without references.
WithoutReferences == wei18nToPo(call.json, call.locale, Absent)

\* C17: wei18nToPo with references and without have the same charset and
\* headers and the same entries, key by key, with the same msgctxt, msgid,
\* msgstr and comments.extracted; only comments.translator may differ, and
\* a key that only a reference has adds no entry.
C17_NonDestructiveMerge ==
    (BuiltByWei18nToPo /\ call.referenceTexts # Absent) =>
        LET plain == Get(WithoutReferences.translations, <<>>)
        IN  /\ poValue.charset = WithoutReferences.charset
            /\ poValue.headers = WithoutReferences.headers
            /\ Len(poValue.translations) = Len(WithoutReferences.translations)
            /\ Len(DefaultTable) = Len(plain)
            /\ \A i \in DOMAIN DefaultTable :
                  /\ DefaultTable[i][1] = plain[i][1]
                  /\ DefaultTable[i][2].msgctxt = plain[i][2].msgctxt
                  /\ DefaultTable[i][2].msgid = plain[i][2].msgid
                  /\ DefaultTable[i][2].msgstr = plain[i][2].msgstr
                  /\ DefaultTable[i][2].comments.extracted = plain[i][2].comments.extracted
            /\ ObjectKeys(DefaultTable) = ObjectKeys(call.json)

\* Two references, one with a key of the target that has a description and
\* one with a key the target lacks: the entry gets a translator comment and
\* keeps its description, the other key gets no entry.
C17_Witness ==
    /\ BuiltByWei18nToPo
    /\ call.referenceTexts # Absent
    /\ Len(call.referenceTexts[1]) = 2
    /\ \E r \in DOMAIN call.referenceTexts[1] :
          ObjectKeys(call.referenceTexts[1][r]) \ ObjectKeys(call.json) # {}
    /\ \E i \in DOMAIN DefaultTable :
          /\ DefaultTable[i][2].comments.extracted = <<"d">>
          /\ DefaultTable[i][2].comments.translator = <<"r">>

RainbeamRoundTripped == pc = "json" /\ call.fn = "rainbeamToPo"

\* Every key non-empty and, with a source, every key of the source in the
\* target and every source text non-empty.
C18_Precondition ==
    /\ <<>> \notin ObjectKeys(call.json.data)
    /\ call.source # Absent =>
          /\ <<>> \notin ObjectKeys(call.source[1].data)
          /\ ObjectKeys(call.source[1].data) \subseteq ObjectKeys(call.json.data)
          /\ \A i \in DOMAIN call.source[1].data : call.source[1].data[i][2] # <<>>

\* C18 as stated: under the precondition, rainbeamToPo, the PO layer and
\* rainbeamToJson give, with a source, data with exactly the keys of the
\* source and data[k] = t.data[k]; without a source, data[k] = "" for every
\* key k of t.data.
C18_RainbeamRoundTrip ==
    (RainbeamRoundTripped /\ C18_Precondition) =>
        /\ result.ret.status = "returned"
        /\ IF call.source # Absent
           THEN /\ ObjectKeys(result.ret.value.data) = ObjectKeys(call.source[1].data)
                /\ \A k \in ObjectKeys(call.source[1].data) :
                      Get(result.ret.value.data, k) = Get(call.json.data, k)
           ELSE \A k \in ObjectKeys(call.json.data) :
                      /\ Has(result.ret.value.data, k)
                      /\ Get(result.ret.value.data, k) = <<>>

\* The keys of a Rainbeam file whose text is not the empty string.
KeysWithText(file) == {file.data[i][1] : i \in {n \in DOMAIN file.data : file.data[n][2] # <<>>}}

\* C18 amended: with a source, as stated; without a source, data has
\* exactly the keys of t.data whose text is not "", each with the value "",
\* and a key whose text is "" is dropped.
C18_RainbeamRoundTripAmended ==
    (RainbeamRoundTripped /\ C18_Precondition) =>
        /\ result.ret.status = "returned"
        /\ Len(result.ret.value.data) = Cardinality(ObjectKeys(result.ret.value.data))
        /\ IF call.source # Absent
           THEN /\ ObjectKeys(result.ret.value.data) = ObjectKeys(call.source[1].data)
                /\ \A k \in ObjectKeys(call.source[1].data) :
                      Get(result.ret.value.data, k) = Get(call.json.data, k)
           ELSE /\ ObjectKeys(result.ret.value.data) = KeysWithText(call.json)
                /\ \A k \in KeysWithText(call.json) :
                      Get(result.ret.value.data, k) = <<>>

\* A target of two keys, one translated and one with the empty text, taken
\* through the round trip with a source that has both keys.
C18_Witness ==
    /\ RainbeamRoundTripped
    /\ C18_Precondition
    /\ call.source # Absent
    /\ Len(call.source[1].data) = 2
    /\ Len(result.ret.value.data) = 2
    /\ \E k \in ObjectKeys(call.json.data) : Get(result.ret.value.data, k) = <<"x">>
    /\ \E k \in ObjectKeys(call.json.data) : Get(result.ret.value.data, k) = <<>>

\* The keys of a dictionary in their order.
KeyList(obj) == [i \in DOMAIN obj |-> obj[i][1]]

ConvertedByWei18nToJson == pc = "json" /\ result.fn = "wei18nToJson"

\* C19 as stated: each earlier converter yields what the final function
\* yields for the same arguments: wei18n_to_po as wei18nToPo without
\* references, po_to_wei18n as wei18nToJson, and both earlier Rainbeam toPo
\* as rainbeamToPo.
C19_EarlierVariants ==
    /\ (BuiltByWei18nToPo /\ call.referenceTexts = Absent)
          => wei18n_to_po(call.json, call.locale) = poValue
    /\ ConvertedByWei18nToJson
          => po_to_wei18n(poValue) = wei18nToJsonText(poValue)
    /\ BuiltByRainbeamToPo
          => /\ toPo(call.json, call.locale, call.source) = poValue
             /\ toPoPrioritizingSource(call.json, call.locale, call.source) = poValue

\* C19 amended: wei18n_to_po differs from wei18nToPo only in putting a
\* description in comments.translator instead of comments.extracted, and is
\* equal exactly when no entry has a non-empty description; po_to_wei18n
\* throws when wei18nToJson throws, its string lacks the final line break,
\* and its JSON is that of wei18nToJson exactly when every entry with a
\* non-empty msgid has the same translator and extracted comment; the first
\* Rainbeam toPo equals rainbeamToPo exactly when no source is given or the
\* source has the keys of the target in the same order; the second Rainbeam
\* toPo always equals rainbeamToPo.
C19_EarlierVariantsAmended ==
    /\ (BuiltByWei18nToPo /\ call.referenceTexts = Absent) =>
          LET early == wei18n_to_po(call.json, call.locale)
              table == Get(early.translations, <<>>)
          IN  /\ early.charset = poValue.charset
              /\ early.headers = poValue.headers
              /\ Len(early.translations) = Len(poValue.translations)
              /\ Len(table) = Len(DefaultTable)
              /\ \A i \in DOMAIN table :
                    /\ table[i][1] = DefaultTable[i][1]
                    /\ table[i][2].msgctxt = DefaultTable[i][2].msgctxt
                    /\ table[i][2].msgid = DefaultTable[i][2].msgid
                    /\ table[i][2].msgstr = DefaultTable[i][2].msgstr
                    /\ table[i][2].comments.translator = DefaultTable[i][2].comments.extracted
                    /\ table[i][2].comments.extracted = Undefined
                    /\ DefaultTable[i][2].comments.translator = Undefined
              /\ early = poValue
                    <=> \A i \in DOMAIN call.json : ~Truthy(call.json[i][2].description)
    /\ ConvertedByWei18nToJson =>
          LET early == po_to_wei18n(poValue)
              final == wei18nToJsonText(poValue)
          IN  /\ early.status = final.status
              /\ final.status = result.ret.status
              /\ early.status = "returned" =>
                    /\ early.value.ending = <<>>
                    /\ final.value.ending = <<LF>>
                    /\ final.value.json = result.ret.value
                    /\ early.value.json = final.value.json
                          <=> \A i \in DOMAIN DefaultTable :
                                  DefaultTable[i][1] # <<>> =>
                                      DefaultTable[i][2].comments.translator
                                          = DefaultTable[i][2].comments.extracted
    /\ BuiltByRainbeamToPo =>
          /\ toPoPrioritizingSource(call.json, call.locale, call.source) = poValue
          /\ toPo(call.json, call.locale, call.source) = poValue
                <=> \/ call.source = Absent
                    \/ KeyList(call.source[1].data) = KeyList(call.json.data)

\* A source with more keys than the target: the first Rainbeam toPo makes an
\* entry per key of the target, rainbeamToPo one per key of the source.
C19_Witness ==
    /\ BuiltByRainbeamToPo
    /\ call.source # Absent
    /\ Len(call.source[1].data) = 2
    /\ Len(call.json.data) = 1
    /\ Len(DefaultTable) = 2
    /\ Len(Get(toPo(call.json, call.locale, call.source).translations, <<>>)) = 1
    /\ toPoPrioritizingSource(call.json, call.locale, call.source) = poValue

-----------------------------------------------------------------------------
(* Claims about main *)

EventsOf(op) == SelectSeq(events, LAMBDA e : e.op = op)

\* The converter the claim names for a command line.
NamedConverter ==
    LET json == /\ Len(argv.input[1]) >= 5
                /\ \A i \in 1..5 : argv.input[1][Len(argv.input[1]) - 5 + i] = DotJson[i]
        rainbeam == argv.mode = Given("rainbeam")
    IN  IF json
        THEN IF rainbeam THEN "rainbeamToPo" ELSE "wei18nToPo"
        ELSE IF rainbeam THEN "rainbeamToJson" ELSE "wei18nToJson"

Dispatchable ==
    /\ argv.locale # Absent
    /\ argv.input # Absent
    /\ argv.output # Absent
    /\ argv.mode \in {Absent, Given("rainbeam"), Given("wei18n")}

OneConversionOneWrite ==
    /\ Len(EventsOf("convert")) = 1
    /\ EventsOf("convert")[1].what = NamedConverter
    /\ Len(EventsOf("write")) = 1
    /\ EventsOf("write")[1].what = "output"

Usage == Event("log", "helpText", <<>>)
ModeError == Event("log", "Mode must be", <<>>)
Uncaught == Event("throw", "uncaught", <<>>)

InvalidMode == argv.mode \notin {Absent, Given("rainbeam"), Given("wei18n")}
MissingOption == argv.locale = Absent \/ argv.input = Absent \/ argv.output = Absent

\* No file has been read and none written.
NoFileTouched == EventsOf("read") = <<>> /\ EventsOf("write") = <<>>

\* C11 as stated: whatever the other arguments are, --help prints the usage
\* and exits 0, an invalid --mode prints the mode error and exits 1, a
\* missing -l, -i or -o prints the usage and exits 1, and in each case no
\* file is read or written.
C11_EarlyExits ==
    /\ (argv.help \/ InvalidMode \/ MissingOption)
          => pc \in {"main", "exited"} /\ NoFileTouched
    /\ pc = "exited" =>
          /\ argv.help => events = <<Usage>> /\ exitCode = 0
          /\ InvalidMode => events = <<ModeError>> /\ exitCode = 1
          /\ MissingOption => events = <<Usage>> /\ exitCode = 1

\* C11 amended: the tests are made in the order parse, help, mode, missing
\* option, and the first that applies decides: an argument that belongs to
\* no option ends the run with an uncaught error and status 1; otherwise
\* --help prints the usage and exits 0; otherwise an invalid mode prints the
\* mode error and exits 1; otherwise a missing -l, -i or -o prints the usage
\* and exits 1. In each case no file is read or written.
C11_EarlyExitsAmended ==
    /\ (argv.positionals # <<>> \/ argv.help \/ InvalidMode \/ MissingOption)
          => pc \in {"main", "exited"} /\ NoFileTouched
    /\ pc = "exited" =>
          IF argv.positionals # <<>>
          THEN events = <<Uncaught>> /\ exitCode = 1
          ELSE IF argv.help
          THEN events = <<Usage>> /\ exitCode = 0
          ELSE IF InvalidMode
          THEN events = <<ModeError>> /\ exitCode = 1
          ELSE MissingOption => events = <<Usage>> /\ exitCode = 1

\* --help together with an invalid mode and no -i: the usage, status 0.
C11_Witness ==
    /\ pc = "exited"
    /\ argv.positionals = <<>>
    /\ argv.help
    /\ InvalidMode
    /\ argv.input = Absent
    /\ events = <<Usage>>
    /\ exitCode = 0

\* A command line that gets past the early exits.
Converts == argv.positionals = <<>> /\ ~argv.help /\ ~InvalidMode /\ ~MissingOption

\* The -i file cannot be read, parsed or validated as what the run expects.
InputFails ==
    kindOf(files.input) #
        (IF endsWith(argv.input[1], DotJson) THEN defaultMode(argv.mode) ELSE "po")

\* The -s file is read and cannot be read, parsed or validated.
SourceFails ==
    /\ endsWith(argv.input[1], DotJson)
    /\ TruthyOption(argv.source)
    /\ kindOf(files.source) # defaultMode(argv.mode)

\* C12: when the input file or the -s source file cannot be read, parsed or
\* validated, the run ends with the uncaught failure and status 1 and the
\* output is never written; at most one write happens in a run and every
\* read precedes it.
C12_NoPartialSuccess ==
    /\ Len(EventsOf("write")) <= 1
    /\ \A i, j \in DOMAIN events :
          (events[i].op = "read" /\ events[j].op = "write") => i < j
    /\ (Converts /\ (InputFails \/ SourceFails)) =>
          /\ EventsOf("write") = <<>>
          /\ pc = "exited" =>
                /\ exitCode = 1
                /\ events[Len(events)] = Uncaught
                /\ EventsOf("convert") = <<>>

\* A run whose input is read and validated and whose source is not: two
\* reads, the uncaught failure, status 1, nothing written.
C12_Witness ==
    /\ pc = "exited"
    /\ Converts
    /\ ~InputFails
    /\ SourceFails
    /\ events = <<Event("read", "input", <<>>), Event("read", "source", <<>>), Uncaught>>
    /\ exitCode = 1

\* The reference maps the positional arguments name, in command-line order.
ReferenceFiles == [i \in DOMAIN argv.positionals |-> valueOf(argv.positionals[i])]

\* C13: a WebExt JSON->PO run given positional reference files reads the
\* input and each reference file, and writes what wei18nToPo returns for the
\* input, the locale and the reference maps in command-line order.
C13_ReferenceFiles ==
    (/\ pc = "exited"
     /\ ~argv.help /\ ~InvalidMode /\ ~MissingOption
     /\ defaultMode(argv.mode) = "wei18n"
     /\ endsWith(argv.input[1], DotJson)
     /\ argv.source = Absent
     /\ argv.positionals # <<>>
     /\ ~InputFails)
        => /\ exitCode = 0
           /\ Len(EventsOf("read")) = 1 + Len(argv.positionals)
           /\ EventsOf("write") =
                  <<Event("write", "output",
                          wei18nToPo(valueOf(files.input), argv.locale[1],
                                     Given(ReferenceFiles)))>>

\* C14: the invocation the help text gives for PO->JSON, --mode rainbeam
\* with -i a path not ending in .json and -o and no -l, converts the PO input
\* with rainbeamToJson and writes the result to the output path.
C14_DocumentedInvocation ==
    (/\ pc = "exited"
     /\ argv.positionals = <<>>
     /\ ~argv.help
     /\ argv.mode = Given("rainbeam")
     /\ argv.input # Absent
     /\ ~endsWith(argv.input[1], DotJson)
     /\ argv.output # Absent
     /\ argv.locale = Absent
     /\ argv.source = Absent
     /\ kindOf(files.input) = "po")
        => /\ exitCode = 0
           /\ EventsOf("write") =
                  <<Event("write", "output", rainbeamToJson(valueOf(files.input)).value)>>

====
